---- MODULE Spec2Model ----
(***************************************************************************)
(* Model of app.py: the YouTube audio / transcript downloader.             *)
(*                                                                         *)
(* Strings are sequences of one-character strings (an extension word such  *)
(* as "mp3" is kept as one token: it holds no dot, bracket or separator).  *)
(* A call that can raise is modelled by a completion record                *)
(*   [raised |-> BOOLEAN, exc |-> exception class, ret |-> returned dict]  *)
(* and every try/except of the source by an operator on completions.       *)
(* External processes (yt-dlp, the recognizer, the audio decoder) are      *)
(* inputs drawn with \E from the outcomes they can produce.                *)
(***************************************************************************)
EXTENDS Integers, Sequences, FiniteSets, TLC

VARIABLES
    filename,        \* clean_filename: the argument
    cleaned,         \* clean_filename(filename)
    cleaned2,        \* clean_filename(cleaned)
    cpc,             \* position of the clean_filename driver
    session_state,   \* st.session_state: transcript, audio_file, download_complete
    downloads,       \* files of the downloads/ directory: [name, size]
    transcripts,     \* file names of the transcripts/ directory
    last,            \* what the last script run did (handler, external calls, results)
    attempt,         \* outcome of the most recent download attempt with a truthy URL
    call,            \* the function call observed by the call driver
    fpc,             \* position of the call driver
    long_in,         \* transcribe_long_audio: decoder and recognizer outcomes
    long_out,        \* transcribe_long_audio: completion and recognizer calls
    lpc              \* position of the transcribe_long_audio driver

vars == <<filename, cleaned, cleaned2, cpc, session_state, downloads, transcripts,
          last, attempt, call, fpc, long_in, long_out, lpc>>

cleanVars == <<filename, cleaned, cleaned2, cpc>>
sessionVars == <<session_state, downloads, transcripts, last, attempt>>
callVars == <<call, fpc>>
longVars == <<long_in, long_out, lpc>>
otherVars == <<cleanVars, callVars, longVars>>

-----------------------------------------------------------------------------
(* Generic helpers: Python's None, sequences.                              *)

\* Python's None
None ==
    [none |-> TRUE]

IsNone(x) ==
    "none" \in DOMAIN x

Min(S) ==
    CHOOSE m \in S : \A k \in S : m <= k

Max(S) ==
    CHOOSE m \in S : \A k \in S : m >= k

\* all sequences over S of length at most n
SeqsUpTo(S, n) ==
    UNION {[1..k -> S] : k \in 0..n}

\* n copies of c
Repeat(c, n) ==
    [i \in 1..n |-> c]

\* s starts with p
StartsWith(s, p) ==
    /\ Len(p) <= Len(s)
    /\ SubSeq(s, 1, Len(p)) = p

-----------------------------------------------------------------------------
(* clean_filename                                                          *)

\* the character class of the re.sub
InvalidChars ==
    {"\\", "/", "*", "?", ":", "\"", "<", ">", "|"}

\* the argument of str.strip
StripChars ==
    {".", " "}

\* the length limit
MAX_FILENAME_LEN ==
    100

\* re.sub(r'[\\/*?:"<>|]', "_", s)
ReplaceInvalid(s) ==
    [i \in 1..Len(s) |-> IF s[i] \in InvalidChars THEN "_" ELSE s[i]]

\* s.strip('. ')
Strip(s) ==
    LET keep == {i \in 1..Len(s) : s[i] \notin StripChars}
    IN  IF keep = {} THEN <<>> ELSE SubSeq(s, Min(keep), Max(keep))

\* s[:100] when len(s) > 100
Truncate(s) ==
    IF Len(s) > MAX_FILENAME_LEN THEN SubSeq(s, 1, MAX_FILENAME_LEN) ELSE s

clean_filename(s) ==
    Truncate(Strip(ReplaceInvalid(s)))

-----------------------------------------------------------------------------
(* Driver of clean_filename: titles around the length limit.               *)

\* longest head and tail put around the padding of a long title
MaxEdge ==
    2

CleanAlphabet ==
    {"a", " ", ".", "/"}

\* lengths of the run of letters between head and tail
PadLens ==
    {0, MAX_FILENAME_LEN - 2, MAX_FILENAME_LEN - 1, MAX_FILENAME_LEN}

CleanInputs ==
    {h \o Repeat("a", n) \o t :
        h \in SeqsUpTo(CleanAlphabet, MaxEdge),
        n \in PadLens,
        t \in SeqsUpTo(CleanAlphabet, MaxEdge)}

SessionIdle ==
    /\ session_state = [transcript |-> None, audio_file |-> None,
                        download_complete |-> FALSE]
    /\ downloads = {}
    /\ transcripts = {}
    /\ last = [handler |-> "none", installed |-> TRUE, url |-> <<>>, calls |-> <<>>,
               at_call |-> None, tr |-> "none"]
    /\ attempt = "none"

CallIdle ==
    /\ call = None
    /\ fpc = "idle"

LongIdle ==
    /\ long_in = [load |-> "ok", rec |-> "text", chunks |-> <<>>]
    /\ long_out = None
    /\ lpc = "idle"

CleanIdle ==
    /\ filename = <<>>
    /\ cleaned = <<>>
    /\ cleaned2 = <<>>
    /\ cpc = "idle"

InitClean ==
    /\ filename \in CleanInputs
    /\ cleaned = <<>>
    /\ cleaned2 = <<>>
    /\ cpc = "input"
    /\ SessionIdle
    /\ CallIdle
    /\ LongIdle

CleanOnce ==
    /\ cpc = "input"
    /\ cleaned' = clean_filename(filename)
    /\ cpc' = "once"
    /\ UNCHANGED <<filename, cleaned2, sessionVars, callVars, longVars>>

CleanTwice ==
    /\ cpc = "once"
    /\ cleaned2' = clean_filename(cleaned)
    /\ cpc' = "twice"
    /\ UNCHANGED <<filename, cleaned, sessionVars, callVars, longVars>>

NextClean ==
    \/ CleanOnce
    \/ CleanTwice

SpecClean ==
    InitClean /\ [][NextClean]_vars

-----------------------------------------------------------------------------
(* Results and completions.                                                *)

\* {"success": False, "error": msg}; a message is a sequence of text pieces
Failure(msg) ==
    [success |-> FALSE, error |-> msg]

\* the call returned r
Returned(r) ==
    [raised |-> FALSE, exc |-> "", ret |-> r]

\* the call raised an exception of class e (every class here derives from Exception)
Raised(e) ==
    [raised |-> TRUE, exc |-> e, ret |-> None]

\* str(e) of a caught exception
StrExc(e) ==
    <<e>>

\* Python values that may be None
PyStr(s) ==
    [py |-> "str", v |-> s]

PyInt(n) ==
    [py |-> "int", v |-> n]

PyNoneStr ==
    [py |-> "None", v |-> <<>>]

PyNoneInt ==
    [py |-> "None", v |-> 0]

-----------------------------------------------------------------------------
(* The external extractor in metadata-dump mode, and get_video_info.       *)

UnknownTitle ==
    <<"U", "n", "k", "n", "o", "w", "n", " ", "T", "i", "t", "l", "e">>

\* titles the extractor reports (a missing title reads "Unknown Title")
Titles ==
    {<<"[", "a", "]">>}

\* durations (seconds) the extractor reports (a missing duration reads 0,
\* below the 60 s split of transcribe_audio)
Durations ==
    {90}

\* a field of the dumped JSON object: absent, null or a value
TitleFields ==
    {[tag |-> "absent", v |-> <<>>], [tag |-> "null", v |-> <<>>]}
        \cup {[tag |-> "val", v |-> t] : t \in Titles}

DurationFields ==
    {[tag |-> "absent", v |-> 0], [tag |-> "null", v |-> 0]}
        \cup {[tag |-> "val", v |-> d] : d \in Durations}

NoJson ==
    [kind |-> "invalid", title |-> [tag |-> "absent", v |-> <<>>],
     duration |-> [tag |-> "absent", v |-> 0]]

\* what json.loads makes of stdout: a parse error, a non-object, an object
JsonOutputs ==
    {NoJson, [NoJson EXCEPT !.kind = "array"]}
        \cup {[kind |-> "object", title |-> t, duration |-> d] :
                t \in TitleFields, d \in DurationFields}

Stderrs ==
    {<<"network error">>, <<>>}

\* outcomes of subprocess.run(["yt-dlp", "--dump-json", ...])
ProbeOutcomes ==
    {[exec |-> "missing", returncode |-> 1, stderr |-> <<>>, stdout |-> NoJson]}
        \cup {[exec |-> "ran", returncode |-> 1, stderr |-> e, stdout |-> NoJson] :
                e \in Stderrs}
        \cup {[exec |-> "ran", returncode |-> 0, stderr |-> <<>>, stdout |-> j] :
                j \in JsonOutputs}

\* video_info.get("title", "Unknown Title")
GetTitle(f) ==
    CASE f.tag = "absent" -> PyStr(UnknownTitle)
      [] f.tag = "null" -> PyNoneStr
      [] OTHER -> PyStr(f.v)

\* video_info.get("duration", 0)
GetDuration(f) ==
    CASE f.tag = "absent" -> PyInt(0)
      [] f.tag = "null" -> PyNoneInt
      [] OTHER -> PyInt(f.v)

\* the try block of get_video_info
get_video_info_try(p) ==
    IF p.exec = "missing" THEN Raised("FileNotFoundError")
    ELSE IF p.returncode # 0 THEN Returned(Failure(p.stderr))
    ELSE IF p.stdout.kind = "invalid" THEN Raised("JSONDecodeError")
    ELSE IF p.stdout.kind # "object" THEN Raised("AttributeError")
    ELSE Returned([success |-> TRUE,
                   title |-> GetTitle(p.stdout.title),
                   duration |-> GetDuration(p.stdout.duration)])

\* get_video_info: the completion of the call under probe outcome p
get_video_info(p) ==
    LET c == get_video_info_try(p)
    IN  IF c.raised THEN Returned(Failure(StrExc(c.exc))) ELSE c

\* the subprocess get_video_info starts
ProbeCall(url) ==
    [cmd |-> "dump-json", url |-> url]

-----------------------------------------------------------------------------
(* The downloads directory, os.path and Path.glob.                         *)

FileNames(dir) ==
    {f.name : f \in dir}

\* os.path.exists
Exists(dir, name) ==
    name \in FileNames(dir)

\* a process writes `size` bytes to `name`, replacing what was there
WriteFile(dir, name, size) ==
    {f \in dir : f.name # name} \cup {[name |-> name, size |-> size]}

\* str.lower on the characters of the model
Lower(c) ==
    CASE c = "U" -> "u"
      [] c = "T" -> "t"
      [] OTHER -> c

\* os.path.splitext of a base name: the last dot splits, leading dots do not
splitext(p) ==
    LET dots == {i \in 1..Len(p) : p[i] = "."}
    IN  IF dots = {} THEN <<p, <<>>>>
        ELSE IF \E k \in 1..(Max(dots) - 1) : p[k] # "."
             THEN <<SubSeq(p, 1, Max(dots) - 1), SubSeq(p, Max(dots), Len(p))>>
             ELSE <<p, <<>>>>

\* fnmatch.translate: the pattern as a list of items; "[" opens a character
\* class when a "]" closes it ("!" negates; ranges need "-", which no title holds)
RECURSIVE Translate(_, _)
Translate(pat, i) ==
    IF i > Len(pat) THEN <<>>
    ELSE IF pat[i] = "*"
        THEN <<[t |-> "star", cs |-> {}, neg |-> FALSE]>> \o Translate(pat, i + 1)
    ELSE IF pat[i] = "?"
        THEN <<[t |-> "one", cs |-> {}, neg |-> TRUE]>> \o Translate(pat, i + 1)
    ELSE IF pat[i] = "["
        THEN LET j0 == i + 1
                 j1 == IF j0 <= Len(pat) /\ pat[j0] = "!" THEN j0 + 1 ELSE j0
                 j2 == IF j1 <= Len(pat) /\ pat[j1] = "]" THEN j1 + 1 ELSE j1
                 closers == {k \in j2..Len(pat) : pat[k] = "]"}
             IN  IF closers = {}
                 THEN <<[t |-> "one", cs |-> {"["}, neg |-> FALSE]>>
                          \o Translate(pat, i + 1)
                 ELSE LET j == Min(closers)
                          neg == pat[j0] = "!"
                          from == IF neg THEN j0 + 1 ELSE j0
                      IN  <<[t |-> "one",
                             cs |-> {pat[k] : k \in from..(j - 1)},
                             neg |-> neg]>> \o Translate(pat, j + 1)
    ELSE <<[t |-> "one", cs |-> {pat[i]}, neg |-> FALSE]>> \o Translate(pat, i + 1)

\* re.fullmatch of the translated pattern
RECURSIVE Match(_, _)
Match(items, s) ==
    IF items = <<>> THEN s = <<>>
    ELSE IF Head(items).t = "star"
        THEN \E k \in 0..Len(s) : Match(Tail(items), SubSeq(s, k + 1, Len(s)))
    ELSE /\ s # <<>>
         /\ (Head(s) \in Head(items).cs) # Head(items).neg
         /\ Match(Tail(items), Tail(s))

\* Path(dir).glob(pattern): the names the pattern matches
Glob(dir, pattern) ==
    {n \in FileNames(dir) : Match(Translate(pattern, 1), n)}

-----------------------------------------------------------------------------
(* The external extractor in extract-audio mode, and download_youtube_audio. *)

\* the format of the selectbox that the model drives (its default)
Formats ==
    {"mp3"}

\* what the extractor leaves in the output directory when it exits 0
Writes ==
    {"nothing", "expected", "expected_empty", "other_ext"}

\* outcomes of subprocess.run(["yt-dlp", "-f", "bestaudio", "--extract-audio", ...])
ExtractOutcomes ==
    {[exec |-> "missing", returncode |-> 1, stderr |-> <<>>, writes |-> "nothing"]}
        \cup {[exec |-> "ran", returncode |-> 1, stderr |-> e, writes |-> "nothing"] :
                e \in Stderrs}
        \cup {[exec |-> "ran", returncode |-> 0, stderr |-> <<>>, writes |-> w] :
                w \in Writes}

\* f"{base_filename}.{format}"
OutputName(base_filename, format) ==
    base_filename \o <<".", format>>

\* the directory after the extractor ran with -o output_path/base_filename.format
AfterExtract(dir, base_filename, format, x) ==
    IF x.exec # "ran" \/ x.returncode # 0 THEN dir
    ELSE CASE x.writes = "expected" ->
                WriteFile(dir, OutputName(base_filename, format), 1)
           [] x.writes = "expected_empty" ->
                WriteFile(dir, OutputName(base_filename, format), 0)
           [] x.writes = "other_ext" ->
                WriteFile(dir, OutputName(base_filename, "opus"), 1)
           [] OTHER -> dir

ExtractCall(url, format, name) ==
    [cmd |-> "extract-audio", url |-> url, format |-> format, output |-> name]

FileNotFoundMsg ==
    <<"File not found after download">>

OutputPath(name) ==
    [dir |-> "downloads", name |-> name]

\* the success dict built from the resolved output file
DownloadSuccess(info, name) ==
    [success |-> TRUE, file_path |-> OutputPath(name), title |-> info.title,
     file_name |-> name, duration |-> info.duration]

\* variant: the probe's failure is reported under a message of its own
OnProbeFailure_reworded(info) ==
    Failure(<<"Error retrieving video info">>)

\* `if not info["success"]: return info`
OnProbeFailure(info) ==
    info

\* the file check after a zero exit: the expected path, else the first glob match
\* (in directory order, so any match), else "File not found after download"
ResolveOutput(dir, info, base_filename, format) ==
    IF Exists(dir, OutputName(base_filename, format))
    THEN {Returned(DownloadSuccess(info, OutputName(base_filename, format)))}
    ELSE IF Glob(dir, base_filename \o <<".", "*">>) # {}
         THEN {Returned(DownloadSuccess(info, n)) :
                    n \in Glob(dir, base_filename \o <<".", "*">>)}
         ELSE {Returned(Failure(FileNotFoundMsg))}

\* the try block of download_youtube_audio: the runs it can take, each with its
\* completion c, the subprocesses it started and the directory it leaves
download_youtube_audio_try(url, format, p, x, dir) ==
    LET info == get_video_info(p).ret
        base_filename == clean_filename(info.title.v)
        after == AfterExtract(dir, base_filename, format, x)
        probe == <<ProbeCall(url)>>
        both == probe \o <<ExtractCall(url, format, OutputName(base_filename, format))>>
    IN  IF ~info.success
        THEN {[c |-> Returned(OnProbeFailure(info)), calls |-> probe, dir |-> dir]}
        ELSE IF info.title.py = "None"
        THEN {[c |-> Raised("TypeError"), calls |-> probe, dir |-> dir]}
        ELSE IF x.exec = "missing"
        THEN {[c |-> Raised("FileNotFoundError"), calls |-> both, dir |-> dir]}
        ELSE IF x.returncode # 0
        THEN {[c |-> Returned(Failure(x.stderr)), calls |-> both, dir |-> after]}
        ELSE {[c |-> c, calls |-> both, dir |-> after] :
                c \in ResolveOutput(after, info, base_filename, format)}

\* download_youtube_audio: `except Exception as e` turns a raise into a failure dict
download_youtube_audio(url, format, p, x, dir) ==
    {IF r.c.raised THEN [r EXCEPT !.c = Returned(Failure(StrExc(r.c.exc)))] ELSE r :
        r \in download_youtube_audio_try(url, format, p, x, dir)}

-----------------------------------------------------------------------------
(* The recognizer, transcribe_long_audio and transcribe_audio.             *)

\* outcomes of r.recognize_google: text, sr.UnknownValueError, sr.RequestError
RecOutcomes ==
    {"text", "UnknownValueError", "RequestError"}

\* one chunk: the export / AudioFile / record step, the first recognizer call
\* and the second one (consulted only when the code retries)
ChunkOutcomes ==
    [io : {"ok", "err"}, first : RecOutcomes, second : RecOutcomes]

\* the text the recognizer hears in chunk i (chunk 0: the whole short file)
Text(i) ==
    ToString(i)

UnclearAudio ==
    "[Unclear audio]"

RecognitionError ==
    "[Recognition error]"

RecCall(i, try) ==
    [chunk |-> i, try |-> try]

\* " ".join(parts)
RECURSIVE Join(_)
Join(parts) ==
    IF parts = <<>> THEN <<>>
    ELSE IF Len(parts) = 1 THEN <<parts[1]>>
    ELSE <<parts[1], " ">> \o Join(Tail(parts))

\* variant: an unrecognized chunk is retried like a failed request
RecognizeChunk_retry_unclear(o, i) ==
    CASE o.first = "text" ->
            [entry |-> Text(i), calls |-> <<RecCall(i, 1)>>]
      [] OTHER ->
            [entry |-> IF o.second = "text" THEN Text(i) ELSE RecognitionError,
             calls |-> <<RecCall(i, 1), RecCall(i, 2)>>]

\* the inner try of the chunk loop: the entry appended for chunk i and the
\* recognizer calls made
RecognizeChunk(o, i) ==
    CASE o.first = "text" ->
            [entry |-> Text(i), calls |-> <<RecCall(i, 1)>>]
      [] o.first = "UnknownValueError" ->
            [entry |-> UnclearAudio, calls |-> <<RecCall(i, 1)>>]
      [] OTHER ->
            [entry |-> IF o.second = "text" THEN Text(i) ELSE RecognitionError,
             calls |-> <<RecCall(i, 1), RecCall(i, 2)>>]

\* `for i, chunk in enumerate(chunks)`, from chunk i on
RECURSIVE ChunkLoop(_, _, _, _)
ChunkLoop(chunks, i, full_transcript, calls) ==
    IF i > Len(chunks)
    THEN [c |-> Returned([success |-> TRUE, transcript |-> Join(full_transcript)]),
          calls |-> calls, full |-> full_transcript]
    ELSE IF chunks[i].io = "err"
    THEN [c |-> Raised("OSError"), calls |-> calls, full |-> full_transcript]
    ELSE ChunkLoop(chunks, i + 1,
                   Append(full_transcript, RecognizeChunk(chunks[i], i).entry),
                   calls \o RecognizeChunk(chunks[i], i).calls)

\* the try block of transcribe_long_audio; env.chunks has one outcome for each
\* 30 s chunk of the decoded audio
transcribe_long_audio_try(env) ==
    IF env.load = "err"
    THEN [c |-> Raised("CouldntDecodeError"), calls |-> <<>>, full |-> <<>>]
    ELSE ChunkLoop(env.chunks, 1, <<>>, <<>>)

LongErrorMsg(e) ==
    <<"Error transcribing long audio: ", e>>

transcribe_long_audio(env) ==
    LET r == transcribe_long_audio_try(env)
    IN  IF r.c.raised
        THEN [r EXCEPT !.c = Returned(Failure(LongErrorMsg(r.c.exc)))]
        ELSE r

\* os.path.splitext(audio_file_path)[1][1:].lower()
FileExtension(name) ==
    LET e == splitext(name)[2]
    IN  IF e = <<>> THEN <<>> ELSE [i \in 1..(Len(e) - 1) |-> Lower(e[i + 1])]

\* the try block of transcribe_audio
transcribe_audio_try(path, duration, env) ==
    IF duration.py = "None"
    THEN [c |-> Raised("TypeError"), calls |-> <<>>, full |-> <<>>]
    ELSE IF duration.v > 60
    THEN transcribe_long_audio(env)
    ELSE IF env.load = "err"
    THEN [c |-> Raised(IF FileExtension(path.name) = <<"wav">>
                       THEN "ValueError" ELSE "CouldntDecodeError"),
          calls |-> <<>>, full |-> <<>>]
    ELSE IF env.rec = "text"
    THEN [c |-> Returned([success |-> TRUE, transcript |-> <<Text(0)>>]),
          calls |-> <<RecCall(0, 1)>>, full |-> <<>>]
    ELSE [c |-> Raised(env.rec), calls |-> <<RecCall(0, 1)>>, full |-> <<>>]

\* the except clauses of transcribe_audio
TranscribeExcept(e) ==
    CASE e = "UnknownValueError" ->
            Failure(<<"Speech Recognition could not understand the audio">>)
      [] e = "RequestError" ->
            Failure(<<"Could not request results from Speech Recognition service; ", e>>)
      [] OTHER ->
            Failure(<<"Error transcribing audio: ", e>>)

\* variant: only the two recognizer exceptions are caught
transcribe_audio_sr_only(path, duration, env) ==
    LET r == transcribe_audio_try(path, duration, env)
    IN  IF r.c.raised /\ r.c.exc \in {"UnknownValueError", "RequestError"}
        THEN [r EXCEPT !.c = Returned(TranscribeExcept(r.c.exc))]
        ELSE r

transcribe_audio(path, duration, env) ==
    LET r == transcribe_audio_try(path, duration, env)
    IN  IF r.c.raised THEN [r EXCEPT !.c = Returned(TranscribeExcept(r.c.exc))] ELSE r

-----------------------------------------------------------------------------
(* Inputs shared by the script and the call driver.                        *)

\* most files the downloads directory holds
MaxFiles ==
    2

\* most 30 s chunks of an audio file handed to transcribe_audio
EnvChunks ==
    1

\* the text box: empty, whitespace only, a URL
Urls ==
    {<<>>, <<" ">>, <<"u">>}

\* `if youtube_url:`
Truthy(url) ==
    Len(url) > 0

IsBlank(url) ==
    \A i \in 1..Len(url) : url[i] = " "

\* the extractor resolves no video from a blank URL
ProbeOutcomesFor(url) ==
    IF IsBlank(url)
    THEN {p \in ProbeOutcomes : p.exec = "missing" \/ p.returncode # 0}
    ELSE ProbeOutcomes

\* decoder and recognizer outcomes of one transcription: `rec` is the outcome
\* of the whole-file call, `chunks` those of the chunked calls
TranscribeEnvs ==
    [load : {"ok", "err"}, rec : RecOutcomes, chunks : {<<>>}]
        \cup [load : {"ok", "err"}, rec : {"text"},
              chunks : SeqsUpTo(ChunkOutcomes, EnvChunks)]

\* the size of the file `name` of the directory
SizeOf(dir, name) ==
    (CHOOSE f \in dir : f.name = name).size

\* the decoder cannot read an empty file
Decodable(dir, name, env) ==
    SizeOf(dir, name) = 0 => env.load = "err"

-----------------------------------------------------------------------------
(* The Streamlit script: one run for each button click.                    *)

\* variant: download_complete is not cleared
ResetSession_keeps_complete(s) ==
    [s EXCEPT !.transcript = None]

\* variant: the transcript is not cleared
ResetSession_keeps_transcript(s) ==
    [s EXCEPT !.download_complete = FALSE]

\* the first lines of the Download Audio branch
ResetSession(s) ==
    [s EXCEPT !.transcript = None, !.download_complete = FALSE]

\* the session as an external call of the run sees it
Snapshot(s) ==
    [transcript_none |-> IsNone(s.transcript), download_complete |-> s.download_complete]

\* a script run that started nothing
NoRun ==
    [handler |-> "none", installed |-> TRUE, url |-> <<>>, calls |-> <<>>,
     at_call |-> None, tr |-> "none"]

\* os.path.splitext(audio_info['file_name'])[0] + ".txt"
TranscriptName(file_name) ==
    splitext(file_name)[1] \o <<".", "txt">>

TranscriptPath(file_name) ==
    [dir |-> "transcripts", name |-> TranscriptName(file_name)]

\* what f.read() returns for a transcript written by an earlier run
StoredText ==
    <<"<stored transcript>">>

\* the outcomes of the handler's own get_video_info call that lead it to `way`:
\* the error branch, or the video information shown (time.gmtime takes a None
\* duration as "now") and the download started
HandlerProbes(url, way) ==
    {p1 \in ProbeOutcomesFor(url) :
        IF way = "failed"
        THEN ~get_video_info(p1).ret.success
        ELSE get_video_info(p1).ret.success}

Init ==
    /\ session_state = [transcript |-> None, audio_file |-> None,
                        download_complete |-> FALSE]
    /\ downloads = {}
    /\ transcripts = {}
    /\ last = NoRun
    /\ attempt = "none"
    /\ CleanIdle
    /\ CallIdle
    /\ LongIdle

\* yt-dlp --version raised FileNotFoundError: the button is not evaluated
DownloadNotInstalled ==
    /\ last' = [NoRun EXCEPT !.handler = "download", !.installed = FALSE]
    /\ UNCHANGED <<session_state, downloads, transcripts, attempt, otherVars>>

\* the else branch: st.warning("Please enter a YouTube URL")
DownloadNoUrl ==
    \E url \in Urls :
        /\ ~Truthy(url)
        /\ last' = [NoRun EXCEPT !.handler = "download", !.url = url]
        /\ UNCHANGED <<session_state, downloads, transcripts, attempt, otherVars>>

\* get_video_info failed: st.error, nothing downloaded
DownloadProbeFailed ==
    \E url \in {u \in Urls : Truthy(u)} :
        /\ HandlerProbes(url, "failed") # {}
        /\ session_state' = ResetSession(session_state)
        /\ attempt' = "failed"
        /\ last' = [NoRun EXCEPT !.handler = "download", !.url = url,
                                 !.calls = <<ProbeCall(url)>>,
                                 !.at_call = Snapshot(ResetSession(session_state))]
        /\ UNCHANGED <<downloads, transcripts, otherVars>>

\* the video information is shown and download_youtube_audio is called; the
\* handler's own probe decides only whether this branch is taken
DownloadRun ==
    \E url \in {u \in Urls : Truthy(u)} :
        /\ HandlerProbes(url, "shown") # {}
        /\ \E format \in Formats, x \in ExtractOutcomes, p2 \in ProbeOutcomesFor(url) :
             \E r \in download_youtube_audio(url, format, p2, x, downloads) :
                /\ Cardinality(r.dir) <= MaxFiles
                /\ downloads' = r.dir
                /\ session_state' =
                        IF r.c.ret.success
                        THEN [ResetSession(session_state) EXCEPT
                                !.audio_file = r.c.ret, !.download_complete = TRUE]
                        ELSE ResetSession(session_state)
                /\ attempt' = IF r.c.ret.success THEN "success" ELSE "failed"
                /\ last' = [NoRun EXCEPT
                        !.handler = "download", !.url = url,
                        !.calls = <<ProbeCall(url)>> \o r.calls,
                        !.at_call = Snapshot(ResetSession(session_state))]
                /\ UNCHANGED <<transcripts, otherVars>>

\* a click on "Download Audio"
DownloadAudio ==
    \/ DownloadNotInstalled
    \/ DownloadNoUrl
    \/ DownloadProbeFailed
    \/ DownloadRun

\* the button is drawn only `if download_complete and audio_file`
TranscriptButtonShown ==
    /\ session_state.download_complete
    /\ ~IsNone(session_state.audio_file)

\* the transcript file exists: it is loaded
GenerateCached ==
    /\ TranscriptButtonShown
    /\ TranscriptName(session_state.audio_file.file_name) \in transcripts
    /\ session_state' = [session_state EXCEPT !.transcript =
            [success |-> TRUE, transcript |-> StoredText,
             file_path |-> TranscriptPath(session_state.audio_file.file_name)]]
    /\ last' = [NoRun EXCEPT !.handler = "generate", !.tr = "cached"]
    /\ UNCHANGED <<downloads, transcripts, attempt, otherVars>>

\* no transcript file: transcribe_audio, and the file is written on success
GenerateNew ==
    \E env \in TranscribeEnvs :
        LET audio_info == session_state.audio_file
            r == transcribe_audio(audio_info.file_path, audio_info.duration, env)
        IN  /\ TranscriptButtonShown
            /\ TranscriptName(audio_info.file_name) \notin transcripts
            /\ Decodable(downloads, audio_info.file_path.name, env)
            /\ transcripts' = IF r.c.ret.success
                              THEN transcripts \cup {TranscriptName(audio_info.file_name)}
                              ELSE transcripts
            /\ session_state' =
                    IF r.c.ret.success
                    THEN [session_state EXCEPT !.transcript =
                            [success |-> TRUE, transcript |-> r.c.ret.transcript,
                             file_path |-> TranscriptPath(audio_info.file_name)]]
                    ELSE session_state
            /\ last' = [NoRun EXCEPT !.handler = "generate", !.tr = "new"]
            /\ UNCHANGED <<downloads, attempt, otherVars>>

\* a click on "Generate Transcript"
GenerateTranscript ==
    \/ GenerateCached
    \/ GenerateNew

Next ==
    \/ DownloadAudio
    \/ GenerateTranscript

Spec ==
    Init /\ [][Next]_vars

-----------------------------------------------------------------------------
(* Call driver: one call of one of the four functions, from any directory. *)

\* extensions of the files earlier downloads left behind
DiskExts ==
    Formats \cup {"wav", "opus"}

DiskNames ==
    {OutputName(clean_filename(GetTitle(f).v), e) :
        f \in {g \in TitleFields : g.tag # "null"}, e \in DiskExts}

\* the directories of at most MaxFiles files
Disks ==
    {d \in SUBSET [name : DiskNames, size : {0, 1}] :
        /\ Cardinality(d) <= MaxFiles
        /\ Cardinality(FileNames(d)) = Cardinality(d)}

\* the durations a success dict can hold
InfoDurations ==
    {GetDuration(f) : f \in DurationFields}

InitCalls ==
    /\ downloads \in Disks
    /\ call = None
    /\ fpc = "input"
    /\ session_state = [transcript |-> None, audio_file |-> None,
                        download_complete |-> FALSE]
    /\ transcripts = {}
    /\ last = NoRun
    /\ attempt = "none"
    /\ CleanIdle
    /\ LongIdle

callRest == <<session_state, transcripts, last, attempt, cleanVars, longVars>>

CallGetVideoInfo ==
    /\ fpc = "input"
    /\ \E url \in {u \in Urls : Truthy(u)} : \E p \in ProbeOutcomesFor(url) :
        /\ call' = [fn |-> "get_video_info", url |-> url, p |-> p,
                    c |-> get_video_info(p), calls |-> <<ProbeCall(url)>>]
        /\ fpc' = "done"
        /\ UNCHANGED <<downloads, callRest>>

CallDownload ==
    /\ fpc = "input"
    /\ \E url \in {u \in Urls : Truthy(u)}, format \in Formats, x \in ExtractOutcomes :
      \E p \in ProbeOutcomesFor(url) :
        \E r \in download_youtube_audio(url, format, p, x, downloads) :
            /\ call' = [fn |-> "download_youtube_audio", url |-> url, format |-> format,
                        p |-> p, x |-> x, c |-> r.c, calls |-> r.calls]
            /\ downloads' = r.dir
            /\ fpc' = "done"
            /\ UNCHANGED callRest

CallTranscribe ==
    /\ fpc = "input"
    /\ \E f \in downloads, duration \in InfoDurations, env \in TranscribeEnvs :
        LET r == transcribe_audio(OutputPath(f.name), duration, env)
        IN  /\ Decodable(downloads, f.name, env)
            /\ call' = [fn |-> "transcribe_audio", path |-> OutputPath(f.name),
                        duration |-> duration, env |-> env, c |-> r.c, calls |-> r.calls]
            /\ fpc' = "done"
            /\ UNCHANGED <<downloads, callRest>>

CallTranscribeLong ==
    /\ fpc = "input"
    /\ \E f \in downloads, env \in TranscribeEnvs :
        LET r == transcribe_long_audio(env)
        IN  /\ Decodable(downloads, f.name, env)
            /\ call' = [fn |-> "transcribe_long_audio", path |-> OutputPath(f.name),
                        env |-> env, c |-> r.c, calls |-> r.calls]
            /\ fpc' = "done"
            /\ UNCHANGED <<downloads, callRest>>

NextCalls ==
    \/ CallGetVideoInfo
    \/ CallDownload
    \/ CallTranscribe
    \/ CallTranscribeLong

SpecCalls ==
    InitCalls /\ [][NextCalls]_vars

-----------------------------------------------------------------------------
(* Driver of transcribe_long_audio.                                        *)

\* most 30 s chunks of the audio given to transcribe_long_audio
MaxChunks ==
    2

LongInputs ==
    [load : {"ok", "err"}, rec : {"text"}, chunks : SeqsUpTo(ChunkOutcomes, MaxChunks)]

InitLong ==
    /\ long_in \in LongInputs
    /\ long_out = None
    /\ lpc = "input"
    /\ CleanIdle
    /\ CallIdle
    /\ SessionIdle

LongRun ==
    /\ lpc = "input"
    /\ long_out' = transcribe_long_audio(long_in)
    /\ lpc' = "done"
    /\ UNCHANGED <<long_in, cleanVars, callVars, sessionVars>>

NextLong ==
    LongRun

SpecLong ==
    InitLong /\ [][NextLong]_vars

-----------------------------------------------------------------------------
(* Claims about download_youtube_audio and the four functions (SpecCalls).  *)

DownloadDone ==
    /\ fpc = "done"
    /\ call.fn = "download_youtube_audio"

\* the diagnostic text of a failed probe: stderr of a non-zero exit, else the
\* message of the exception the probe met
ProbeDiagnostic(p) ==
    CASE p.exec = "missing" -> <<"FileNotFoundError">>
      [] p.returncode # 0 -> p.stderr
      [] p.stdout.kind = "invalid" -> <<"JSONDecodeError">>
      [] OTHER -> <<"AttributeError">>

ProbeFails(p) ==
    \/ p.exec = "missing"
    \/ p.returncode # 0
    \/ p.stdout.kind # "object"

(* C1: when the metadata probe of a download_youtube_audio call fails, the  *)
(* call returns a failure whose message is the probe's diagnostic text      *)
(* unchanged, and the extract-audio subprocess is not started in that call. *)
C1_ProbeFailureShortCircuits ==
    (DownloadDone /\ ProbeFails(call.p)) =>
        /\ call.c = Returned(Failure(ProbeDiagnostic(call.p)))
        /\ \A i \in DOMAIN call.calls : call.calls[i].cmd # "extract-audio"

C1_Witness ==
    /\ DownloadDone
    /\ call.p.exec = "ran"
    /\ call.p.returncode = 1
    /\ call.p.stderr = <<"network error">>
    /\ call.c.ret = Failure(<<"network error">>)
    /\ call.calls = <<ProbeCall(call.url)>>

(* C2: every success returned by download_youtube_audio names a file that   *)
(* exists with a size above zero when the call returns.                     *)
C2_SuccessFileNonEmpty ==
    (DownloadDone /\ ~call.c.raised /\ call.c.ret.success) =>
        \E f \in downloads :
            /\ f.name = call.c.ret.file_path.name
            /\ f.size > 0

\* the call reached the file check: the probe gave a title and the extractor exited 0
ExtractExitedZero ==
    /\ DownloadDone
    /\ ~ProbeFails(call.p)
    /\ call.p.stdout.title.tag # "null"
    /\ call.x.exec = "ran"
    /\ call.x.returncode = 0

(* C5: after a zero exit of the extractor the result is "File not found     *)
(* after download" exactly when the directory holds neither the expected    *)
(* file nor any file named <stem>.<anything>; when the expected file is     *)
(* absent and such a file exists, the result is a success naming it.        *)
C5_FileResolution ==
    ExtractExitedZero =>
        LET stem == clean_filename(GetTitle(call.p.stdout.title).v)
            expected == OutputName(stem, call.format)
            stemFiles == {n \in FileNames(downloads) : StartsWith(n, stem \o <<".">>)}
        IN  /\ (call.c.ret = Failure(FileNotFoundMsg)) <=> (stemFiles = {})
            /\ (expected \notin FileNames(downloads) /\ stemFiles # {}) =>
                    /\ call.c.ret.success
                    /\ call.c.ret.file_name \in stemFiles
                    /\ call.c.ret.file_path = OutputPath(call.c.ret.file_name)

(* C6: get_video_info, download_youtube_audio, transcribe_audio and         *)
(* transcribe_long_audio never raise: each returns a dict with a success    *)
(* flag and, when it is false, an error message.                            *)
C6_FailuresAreData ==
    fpc = "done" =>
        /\ ~call.c.raised
        /\ "success" \in DOMAIN call.c.ret
        /\ ~call.c.ret.success => "error" \in DOMAIN call.c.ret

C6_Witness ==
    /\ fpc = "done"
    /\ call.fn = "transcribe_audio"
    /\ call.duration.py = "None"
    /\ call.c = Returned(Failure(<<"Error transcribing audio: ", "TypeError">>))

-----------------------------------------------------------------------------
(* Claims about the script (Spec).                                         *)

(* C7: a Download Audio click with an empty or whitespace-only URL starts   *)
(* no subprocess and leaves the session state unchanged.                    *)
C7_BlankUrlRejected ==
    [][(last'.handler = "download" /\ IsBlank(last'.url)) =>
            /\ last'.calls = <<>>
            /\ session_state' = session_state]_vars

(* C8: transcription (transcribe_audio or the load of a stored transcript)  *)
(* runs only when the most recent download attempt with a non-empty URL     *)
(* ended in success; after a failed attempt download_complete is false and  *)
(* Generate Transcript cannot run, whatever audio_file still holds.         *)
C8_TranscriptionNeedsSuccess ==
    /\ (last.handler = "generate" /\ last.tr # "none") => attempt = "success"
    /\ attempt = "failed" =>
            /\ ~session_state.download_complete
            /\ ~ENABLED GenerateTranscript

C8_Witness ==
    /\ attempt = "failed"
    /\ ~IsNone(session_state.audio_file)
    /\ last.handler = "download"

(* C10: a transcript held by the session is a success whose file_path is    *)
(* transcripts/<stem of audio_file.file_name>.txt, and every Download Audio *)
(* click with a non-empty URL has transcript None and download_complete     *)
(* False when its external calls are made.                                  *)
C10_TranscriptBelongsToAudio ==
    /\ ~IsNone(session_state.transcript) =>
            /\ session_state.transcript.success
            /\ ~IsNone(session_state.audio_file)
            /\ session_state.transcript.file_path =
                    [dir |-> "transcripts",
                     name |-> splitext(session_state.audio_file.file_name)[1]
                                \o <<".", "txt">>]
    /\ (last.handler = "download" /\ last.installed /\ Truthy(last.url)) =>
            /\ last.calls # <<>>
            /\ last.at_call = [transcript_none |-> TRUE, download_complete |-> FALSE]

C10_Witness ==
    /\ ~IsNone(session_state.transcript)
    /\ Cardinality(FileNames(downloads)) = 2
    /\ Cardinality({splitext(n)[1] : n \in FileNames(downloads)}) = 2

-----------------------------------------------------------------------------
(* Claims about transcribe_long_audio (SpecLong).                          *)

\* the entry the claim gives chunk i under outcome o
ClaimedEntry(o, i) ==
    CASE o.first = "text" -> Text(i)
      [] o.first = "UnknownValueError" -> UnclearAudio
      [] o.second = "text" -> Text(i)
      [] OTHER -> RecognitionError

-----------------------------------------------------------------------------
(* C3: clean_filename is idempotent: cleaning a cleaned title changes      *)
(* nothing, also for titles cut at the length limit.                       *)
C3_Idempotent ==
    cpc = "twice" => cleaned2 = cleaned

(* C4: a cleaned title holds no invalid character, is at most 100 long     *)
(* and neither begins nor ends with a space or a dot.                      *)
C4_CleanShape ==
    cpc # "input" =>
        /\ \A i \in 1..Len(cleaned) : cleaned[i] \notin InvalidChars
        /\ Len(cleaned) <= MAX_FILENAME_LEN
        /\ cleaned # <<>> =>
            /\ cleaned[1] \notin StripChars
            /\ cleaned[Len(cleaned)] \notin StripChars

====
